---- MODULE Spec2Model ----
(***************************************************************************)
(* Model of src/main.py: class BedrockTextGenerator (constructor,          *)
(* generate_text, interactive_chat) and the __main__ entry point.          *)
(*                                                                         *)
(* A Python str is modelled as the sequence of its Unicode code points, so *)
(* that concatenation, equality and strip() are computed character by      *)
(* character.  Every string literal of the source is written out as its    *)
(* code points, with the text in a comment next to it.                     *)
(*                                                                         *)
(* Environment assumptions: a console read (input) yields a line or        *)
(* raises EOFError at end of input; the writes of the diagnostic lines     *)
(* (lines 95, 111, 123) succeed; asynchronous signals (KeyboardInterrupt)  *)
(* are not modelled.                                                       *)
(***************************************************************************)
EXTENDS Integers, Sequences, FiniteSets, TLC

\* Number of non-sentinel lines the console supplies in one run.
MaxTurns == 2

----------------------------------------------------------------------------
(* String literals of the source, as code points *)

\* '\n'
NL == <<10>>
\* 'Human: '  (lines 66, 89)
HumanLabel == <<72, 117, 109, 97, 110, 58, 32>>
\* 'Assistant: '  (line 90)
AssistantLabel == <<65, 115, 115, 105, 115, 116, 97, 110, 116, 58, 32>>
\* '\nAssistant:'  (line 66, after the prompt)
AssistantCue == <<10, 65, 115, 115, 105, 115, 116, 97, 110, 116, 58>>
\* the history label and its newline, line 62 (U+B300 U+D654 ' ' U+D788 U+C2A4 U+D1A0 U+B9AC ':' '\n')
HistoryLabel == <<45824, 54868, 32, 55176, 49828, 53664, 47532, 58, 10>>
\* the sentinel token, line 110 (U+C885 U+B8CC)
Sentinel == <<51333, 47308>>
\* str(None), what an f-string renders for a JSON null
NoneText == <<78, 111, 110, 101>>
\* the system prompt __main__ passes, line 134
MainSystemPrompt == <<45320, 45716, 32, 52828, 51208, 54616, 44256, 32, 46020, 50880, 51060, 32, 46104, 45716, 32, 65, 73, 32, 50612, 49884, 49828, 53556, 53944, 50556, 46>>

\* code points for which str.isspace() is true: what strip() removes
Whitespace == {9, 10, 11, 12, 13, 28, 29, 30, 31, 32, 133, 160, 5760} \cup (8192..8202) \cup {8232, 8233, 8239, 8287, 12288}

----------------------------------------------------------------------------
(* Inputs *)

\* names of the process environment variables the program touches
EnvKeys == {"AWS_ACCESS_KEY_ID", "AWS_SECRET_ACCESS_KEY", "AWS_DEFAULT_REGION"}
RequiredKeys == {"AWS_ACCESS_KEY_ID", "AWS_SECRET_ACCESS_KEY"}

\* Optional[str]: None, or a string
None == [given |-> FALSE, text |-> <<>>]
Some(s) == [given |-> TRUE, text |-> s]

\* system prompts a caller of interactive_chat passes: None, '', 'S'
SystemPrompts == {None, Some(<<>>), Some(<<83>>)}

\* console lines other than the sentinel: 'hi', 'a', 'c', '', and the sentinel followed by a space
Lines == {<<104, 105>>, <<97>>, <<99>>, <<>>, <<51333, 47308, 32>>}

\* JSON values found at choices[0].message.content: a string, or null
JsonStr(s) == [tag |-> "str", s |-> s]
JsonNull == [tag |-> "null", s |-> <<>>]
\* 'b', ' b \n'
Contents == {JsonStr(<<98>>), JsonStr(<<32, 98, 32, 10>>), JsonNull}

\* Outcomes of the remote call and of reading its response:
\*   raise   - invoke_model raises (line 81)
\*   badjson - response['body'].read() or json.loads raises (line 86)
\*   nofield - choices[0].message.content is missing (line 87)
\*   content - the content is extracted
Responses == {[kind |-> k, content |-> JsonNull] : k \in {"raise", "badjson", "nofield"}} \cup {[kind |-> "content", content |-> c] : c \in Contents}

----------------------------------------------------------------------------
(* Pure parts of generate_text *)

\* `if system_prompt:` - None and '' are both false
Truthy(sp) == sp.given /\ sp.text # <<>>

RECURSIVE RenderHistory(_, _)
\* the loop of lines 63-64 over chat_history, appending to the buffer
RenderHistory(buf, hist) == IF hist = <<>> THEN buf ELSE RenderHistory(buf \o Head(hist) \o NL, Tail(hist))

\* full_prompt with the newline after the system prompt left out
FullPromptNoNewline(sp, hist, prompt) ==
  LET b1 == IF Truthy(sp) THEN sp.text ELSE <<>>
      b2 == IF hist # <<>> THEN RenderHistory(b1 \o HistoryLabel, hist) ELSE b1
  IN  b2 \o HumanLabel \o prompt \o AssistantCue

\* full_prompt, lines 56-66
FullPrompt(sp, hist, prompt) ==
  LET b1 == IF Truthy(sp) THEN sp.text \o NL ELSE <<>>
      b2 == IF hist # <<>> THEN RenderHistory(b1 \o HistoryLabel, hist) ELSE b1
  IN  b2 \o HumanLabel \o prompt \o AssistantCue

RECURSIVE LStrip(_)
LStrip(s) == IF s # <<>> /\ Head(s) \in Whitespace THEN LStrip(Tail(s)) ELSE s
RECURSIVE RStrip(_)
RStrip(s) == IF s # <<>> /\ s[Len(s)] \in Whitespace THEN RStrip(SubSeq(s, 1, Len(s) - 1)) ELSE s
\* str.strip()
Strip(s) == RStrip(LStrip(s))

\* what an f-string renders for a JSON value
PyFormat(v) == IF v.tag = "str" THEN v.s ELSE NoneText

\* the try block reaches line 89
Extracted(resp) == resp.kind = "content"

\* the call returns from line 92 (no exception anywhere in the try block)
Succeeds(resp) == Extracted(resp) /\ resp.content.tag = "str"

\* the two appends in the other order
HistoryAfterSwapped(hist, prompt, resp) ==
  IF Extracted(resp)
  THEN Append(Append(hist, AssistantLabel \o PyFormat(resp.content)), HumanLabel \o prompt)
  ELSE hist

\* a history that keeps the newest turn pair only
HistoryAfterCapped(hist, prompt, resp) ==
  IF Extracted(resp)
  THEN <<HumanLabel \o prompt, AssistantLabel \o PyFormat(resp.content)>>
  ELSE hist

\* the Human turn appended before the remote call is made
HistoryAfterEager(hist, prompt, resp) ==
  IF Extracted(resp)
  THEN Append(Append(hist, HumanLabel \o prompt), AssistantLabel \o PyFormat(resp.content))
  ELSE Append(hist, HumanLabel \o prompt)

\* chat_history after the try/except of lines 79-96
HistoryAfter(hist, prompt, resp) ==
  IF Extracted(resp)
  THEN Append(Append(hist, HumanLabel \o prompt), AssistantLabel \o PyFormat(resp.content))
  ELSE hist

\* the return value without strip()
ReturnValueUnstripped(resp) == IF Succeeds(resp) THEN resp.content.s ELSE <<>>

\* the value generate_text returns, lines 92 and 96
ReturnValue(resp) == IF Succeeds(resp) THEN Strip(resp.content.s) ELSE <<>>

\* any() in place of all()
CredentialsAny(e) == \E key \in RequiredKeys : key \in e

\* line 24
CredentialsPresent(e) == \A key \in RequiredKeys : key \in e

\* the comparison made on the stripped line
IsSentinelStripped(line) == Strip(line) = Sentinel

\* line 110
IsSentinel(line) == line = Sentinel

\* a second attempt after the first
CallsWithRetry == 1 + 1

\* invoke_model is called once per generate_text, line 81
CallsPerInvocation == 1

\* the exception leaves the loop
AfterTurnErrorPropagates == "crashed"

\* where the loop goes when a turn raised: the except clause of lines 122-123 falls through to `while True`
AfterTurnError == "read"

----------------------------------------------------------------------------
VARIABLES
  env,            \* names present in os.environ
  pc,             \* position of the program
  fromMain,       \* the run came through __main__
  instance,       \* a BedrockTextGenerator exists
  client,         \* boto3.client was called
  chat_history,   \* self.chat_history
  system_prompt,  \* the argument of interactive_chat
  user_input,     \* the loop's user_input
  request,        \* content of the message sent by the last invoke_model
  inflight,       \* remote calls sent and not yet answered
  response,       \* the value the last generate_text returned
  console,        \* kind of the last line written to stdout
  outbound,       \* history variable: invoke_model calls made
  lines,          \* history variable: non-sentinel lines read
  prev_history,   \* history variable: chat_history when the last call was entered
  last,           \* history variable: how the last call ended
  oklog,          \* history variable: <<prompt, extracted text>> of the successful calls
  failures        \* history variable: number of failed calls

vars == <<env, pc, fromMain, instance, client, chat_history, system_prompt, user_input, request, inflight, response, console, outbound, lines, prev_history, last, oklog, failures>>

loopVars == <<chat_history, user_input, request, inflight, response, outbound, lines, prev_history, last, oklog, failures>>

Init ==
  /\ env \in SUBSET EnvKeys
  /\ pc = "start"
  /\ fromMain = FALSE
  /\ instance = FALSE
  /\ client = FALSE
  /\ chat_history = <<>>
  /\ system_prompt = None
  /\ user_input = <<>>
  /\ request = <<>>
  /\ inflight = 0
  /\ response = <<>>
  /\ console = "none"
  /\ outbound = 0
  /\ lines = 0
  /\ prev_history = <<>>
  /\ last = "none"
  /\ oklog = <<>>
  /\ failures = 0

\* __main__, lines 128-130: the three variables are set (to '' and a region)
MainSetEnv ==
  /\ pc = "start"
  /\ ~fromMain
  /\ env' = env \cup EnvKeys
  /\ fromMain' = TRUE
  /\ UNCHANGED <<pc, instance, client, system_prompt, console>>
  /\ UNCHANGED loopVars

\* __init__, lines 24-25: a credential is missing, EnvironmentError
ConstructRaises ==
  /\ pc = "start"
  /\ ~CredentialsPresent(env)
  /\ pc' = "config_error"
  /\ UNCHANGED <<env, fromMain, instance, client, system_prompt, console>>
  /\ UNCHANGED loopVars

\* __init__, lines 24-38
Construct ==
  /\ pc = "start"
  /\ CredentialsPresent(env)
  /\ client' = TRUE
  /\ chat_history' = <<>>
  /\ instance' = TRUE
  /\ pc' = "constructed"
  /\ UNCHANGED <<env, fromMain, system_prompt, console, user_input, request, inflight, response, outbound, lines, prev_history, last, oklog, failures>>

\* interactive_chat is entered, line 105; __main__ passes its fixed prompt (line 134)
InteractiveChat(sp) ==
  /\ pc = "constructed"
  /\ fromMain => sp = Some(MainSystemPrompt)
  /\ ~fromMain => sp \in SystemPrompts
  /\ system_prompt' = sp
  /\ console' = "banner"
  /\ pc' = "read"
  /\ UNCHANGED <<env, fromMain, instance, client>>
  /\ UNCHANGED loopVars

\* lines 108-84: a line is read; the sentinel breaks the loop, any other line
\* goes to generate_text, which composes the prompt and sends the request
ReadLine(line) ==
  /\ pc = "read"
  /\ (line # Sentinel) => (lines < MaxTurns)
  /\ user_input' = line
  /\ IF IsSentinel(line)
     THEN /\ console' = "bye"
          /\ pc' = "exited"
          /\ UNCHANGED <<lines, prev_history, request, outbound, inflight>>
     ELSE /\ lines' = lines + 1
          /\ prev_history' = chat_history
          /\ request' = FullPrompt(system_prompt, chat_history, line)
          /\ outbound' = outbound + CallsPerInvocation
          /\ inflight' = inflight + CallsPerInvocation
          /\ pc' = "inflight"
          /\ UNCHANGED console
  /\ UNCHANGED <<env, fromMain, instance, client, system_prompt, chat_history, response, last, oklog, failures>>

\* line 108: input() raises EOFError, outside the try of line 114
ReadEOF ==
  /\ pc = "read"
  /\ pc' = "eof"
  /\ UNCHANGED <<env, fromMain, instance, client, system_prompt, console>>
  /\ UNCHANGED loopVars

\* lines 81-96: the remote call returns or raises, generate_text finishes
Respond(resp) ==
  /\ pc = "inflight"
  /\ inflight' = inflight - 1
  /\ chat_history' = HistoryAfter(chat_history, user_input, resp)
  /\ response' = ReturnValue(resp)
  /\ last' = IF Succeeds(resp) THEN "ok" ELSE "fail"
  /\ oklog' = IF Succeeds(resp) THEN Append(oklog, <<user_input, resp.content.s>>) ELSE oklog
  /\ failures' = IF Succeeds(resp) THEN failures ELSE failures + 1
  /\ console' = IF Succeeds(resp) THEN console ELSE "generate_error"
  /\ pc' = "replied"
  /\ UNCHANGED <<env, fromMain, instance, client, system_prompt, user_input, request, outbound, lines, prev_history>>

\* line 120
PrintReply ==
  /\ pc = "replied"
  /\ console' = "AI"
  /\ pc' = "read"
  /\ UNCHANGED <<env, fromMain, instance, client, system_prompt>>
  /\ UNCHANGED loopVars

\* line 120 raises (the reply cannot be written), lines 122-123 print the diagnostic
PrintRaises ==
  /\ pc = "replied"
  /\ console' = "loop_error"
  /\ pc' = AfterTurnError
  /\ UNCHANGED <<env, fromMain, instance, client, system_prompt>>
  /\ UNCHANGED loopVars

Next ==
  \/ MainSetEnv
  \/ ConstructRaises
  \/ Construct
  \/ \E sp \in SystemPrompts \cup {Some(MainSystemPrompt)} : InteractiveChat(sp)
  \/ \E line \in Lines \cup {Sentinel} : ReadLine(line)
  \/ ReadEOF
  \/ \E resp \in Responses : Respond(resp)
  \/ PrintReply
  \/ PrintRaises

Spec == Init /\ [][Next]_vars

----------------------------------------------------------------------------
(* Helpers of the properties *)

IsPrefix(a, b) == Len(a) <= Len(b) /\ SubSeq(b, 1, Len(a)) = a

StartsWith(s, label) == IsPrefix(label, s)

Contains(s, sub) == \E i \in 0..(Len(s) - Len(sub)) : SubSeq(s, i + 1, i + Len(sub)) = sub

\* r is t with its leading and trailing whitespace removed
IsTrimOf(r, t) ==
  /\ \E i \in 0..Len(t) : \E j \in i..Len(t) :
       /\ r = SubSeq(t, i + 1, j)
       /\ \A k \in 1..i : t[k] \in Whitespace
       /\ \A k \in (j + 1)..Len(t) : t[k] \in Whitespace
  /\ r # <<>> => (r[1] \notin Whitespace /\ r[Len(r)] \notin Whitespace)

\* the turn pairs of a log of <<prompt, text>>, oldest first
PairsOf(log) == [i \in 1..(2 * Len(log)) |-> IF i % 2 = 1 THEN HumanLabel \o log[(i + 1) \div 2][1] ELSE AssistantLabel \o log[i \div 2][2]]

RECURSIVE JoinLines(_, _)
\* the first n stored turns, each followed by a newline
JoinLines(hist, n) == IF n = 0 THEN <<>> ELSE JoinLines(hist, n - 1) \o hist[n] \o NL

\* the composed prompt as the specification words it, with `prefixed` saying
\* whether the system instruction and its newline come first
WordedPrompt(prefixed, sp, hist, prompt) ==
  (IF prefixed THEN sp.text \o <<10>> ELSE <<>>)
    \o (IF Len(hist) > 0 THEN HistoryLabel \o JoinLines(hist, Len(hist)) ELSE <<>>)
    \o HumanLabel \o prompt \o <<10>> \o <<65, 115, 115, 105, 115, 116, 97, 110, 116, 58>>

\* 'Human: hi\nAssistant:'
ExampleHi == <<72, 117, 109, 97, 110, 58, 32, 104, 105, 10, 65, 115, 115, 105, 115, 116, 97, 110, 116, 58>>
\* 'S\n' + history label + '\nHuman: a\nAssistant: b\nHuman: c\nAssistant:'
ExampleS == <<83, 10, 45824, 54868, 32, 55176, 49828, 53664, 47532, 58, 10, 72, 117, 109, 97, 110, 58, 32, 97, 10, 65, 115, 115, 105, 115, 116, 97, 110, 116, 58, 32, 98, 10, 72, 117, 109, 97, 110, 58, 32, 99, 10, 65, 115, 115, 105, 115, 116, 97, 110, 116, 58>>

AtExampleHi == pc = "inflight" /\ system_prompt = None /\ chat_history = <<>> /\ user_input = <<104, 105>>
AtExampleS == pc = "inflight" /\ system_prompt = Some(<<83>>) /\ chat_history = <<HumanLabel \o <<97>>, AssistantLabel \o <<98>>>> /\ user_input = <<99>>

ExamplesHold == (AtExampleHi => request = ExampleHi) /\ (AtExampleS => request = ExampleS)

LoopOver == pc \in {"exited", "eof", "crashed"}

----------------------------------------------------------------------------
(* C1 *)

\* C1: after a generate_text call that failed, chat_history equals what it was
\* when the call was entered and the call has returned the empty string.
C1_FailedCallLeavesHistory == (pc = "replied" /\ last = "fail") => (chat_history = prev_history /\ response = <<>>)

----------------------------------------------------------------------------
(* C2 *)

\* C2: a successful call leaves chat_history as it was at entry followed by the
\* Human entry of its prompt and the Assistant entry of its extracted text; while
\* every call so far succeeded, the history is the turn pairs of the calls in
\* call order and has length twice the number of calls.
C2_SuccessAppendsPair ==
  /\ (pc = "replied" /\ last = "ok") =>
       chat_history = prev_history \o <<HumanLabel \o user_input, AssistantLabel \o oklog[Len(oklog)][2]>>
  /\ failures = 0 => (Len(chat_history) = 2 * Len(oklog) /\ chat_history = PairsOf(oklog))

C2_Witness == failures = 0 /\ Len(oklog) = 2 /\ Len(chat_history) = 4 /\ oklog[1] # oklog[2]

----------------------------------------------------------------------------
(* C3 *)

\* C3 as stated: the string sent is the system instruction and a newline whenever
\* a system instruction is given (anything but None), then the labelled history
\* if there is any, then 'Human: {prompt}\nAssistant:'; and the two examples.
C3_PromptAsStated ==
  /\ pc = "inflight" => request = WordedPrompt(system_prompt.given, system_prompt, chat_history, user_input)
  /\ ExamplesHold

\* C3 amended: the system instruction and its newline are sent when a system
\* instruction is given and is not the empty string; the rest as stated.
C3_PromptComposition ==
  /\ pc = "inflight" => request = WordedPrompt(system_prompt.given /\ Len(system_prompt.text) > 0, system_prompt, chat_history, user_input)
  /\ ExamplesHold

C3_Witness == AtExampleS /\ request = ExampleS

----------------------------------------------------------------------------
(* C4 *)

----------------------------------------------------------------------------
(* C5 *)

\* C5: with a required credential missing, construction ends in the configuration
\* error, with no client created, no instance, no remote call; a constructed
\* instance has a client and an empty chat_history.
C5_MissingCredentialsRaise ==
  /\ (pc # "start" /\ ~({"AWS_ACCESS_KEY_ID", "AWS_SECRET_ACCESS_KEY"} \subseteq env)) => pc = "config_error"
  /\ pc = "config_error" => (~instance /\ ~client /\ outbound = 0 /\ chat_history = <<>>)
  /\ pc = "constructed" => (instance /\ client /\ chat_history = <<>>)
  /\ instance => {"AWS_ACCESS_KEY_ID", "AWS_SECRET_ACCESS_KEY"} \subseteq env

C5_Witness == pc = "config_error" /\ "AWS_ACCESS_KEY_ID" \in env /\ "AWS_SECRET_ACCESS_KEY" \notin env

----------------------------------------------------------------------------
(* C6 *)

----------------------------------------------------------------------------
(* C7 *)

\* C7: the remote calls made equal the non-sentinel lines read, each call is
\* answered once (by a success or a failure), at most one call is in flight, and
\* none is in flight while the loop reads.
C7_OneCallPerTurn ==
  /\ inflight \in {0, 1}
  /\ outbound = lines
  /\ outbound = Len(oklog) + failures + inflight
  /\ (pc = "inflight") <=> (inflight = 1)
  /\ pc \in {"read", "exited", "eof"} => inflight = 0

C7_Witness == pc = "exited" /\ outbound = 2 /\ failures = 1 /\ Len(oklog) = 1

----------------------------------------------------------------------------
(* C8 *)

\* C8: every step leaves the old chat_history a prefix of the new one.
C8_AppendOnly == [][IsPrefix(chat_history, chat_history')]_vars

C8_Witness == Len(chat_history) = 4 /\ failures >= 1 /\ pc = "read"

----------------------------------------------------------------------------
(* C9 *)

\* C9: after a successful call the last stored turn is 'Assistant: ' followed by
\* the extracted text as received, the value returned is that text trimmed of
\* leading and trailing whitespace, and a prompt composed later contains the
\* stored (untrimmed) turn on a line of its own.
C9_ReturnTrimmedStoreRaw ==
  /\ (pc = "replied" /\ last = "ok") =>
       LET stored == chat_history[Len(chat_history)]
           text == SubSeq(stored, Len(AssistantLabel) + 1, Len(stored))
       IN  /\ stored = AssistantLabel \o oklog[Len(oklog)][2]
           /\ IsTrimOf(response, text)
  /\ (pc = "inflight" /\ Len(oklog) > 0) =>
       Contains(request, NL \o AssistantLabel \o oklog[Len(oklog)][2] \o NL)

C9_Witness == pc = "inflight" /\ Len(oklog) = 1 /\ oklog[1][2] = <<32, 98, 32, 10>> /\ response = <<98>>

----------------------------------------------------------------------------
(* C10 *)

\* C10: chat_history has even length, its odd entries are Human turns and its
\* even entries Assistant turns, a call adds either nothing or two entries, and
\* no entry is the system instruction.
C10_HistoryAlternates ==
  /\ Len(chat_history) % 2 = 0
  /\ \A i \in 1..Len(chat_history) :
       /\ StartsWith(chat_history[i], IF i % 2 = 1 THEN HumanLabel ELSE AssistantLabel)
       /\ chat_history[i] # system_prompt.text
  /\ pc = "replied" => (Len(chat_history) - Len(prev_history)) \in {0, 2}

C10_Witness == Len(chat_history) = 2 /\ failures = 1 /\ Len(oklog) = 1 /\ system_prompt = Some(<<83>>) /\ pc = "read"

====
